---- MODULE Spec2Model ----
(***************************************************************************)
(* License-plate OCR service: the upload handler of main.py and the three  *)
(* helpers it wires together (ImageHandler, PlateDetector, OCRProcessor).  *)
(*                                                                         *)
(* Images are described by their shape and provenance, not their pixels:   *)
(* the pre-trained classifier, the contour heuristic and the recognition   *)
(* engine are black boxes whose outputs are drawn from bounded pools.      *)
(* Text is a sequence of one-character strings.  A Python Optional is a    *)
(* sequence of length 0 (None) or 1, so that an empty text and None stay   *)
(* different values.                                                       *)
(***************************************************************************)
EXTENDS Integers, Sequences, FiniteSets, TLC

VARIABLES
    pc,                 \* position of the request in upload_image
    upload,             \* the uploaded file: size, declared type, content
    calls,              \* names of the helper calls made so far, in order
    img,                \* the decoded (then resized) image of the request
    plates,             \* get_best_plate's local list of boxes
    classifier_boxes,   \* what detect_plates returned (None: not called)
    geometry_boxes,     \* what detect_plates_contour_method returned
    plate_result,       \* get_best_plate's return value
    img_with_box,       \* the display copy with the overlay drawn
    plate_preprocessed, \* preprocess_for_ocr's return value
    ocr_input,          \* the image handed to reader.readtext
    results,            \* the (text, confidence) pairs readtext returned
    ocr_result,         \* extract_plate_number's return value
    response,           \* the HTTP response of the request
    once,               \* resize_if_needed applied once
    twice               \* resize_if_needed applied to that result

vars == <<pc, upload, calls, img, plates, classifier_boxes, geometry_boxes,
          plate_result, img_with_box, plate_preprocessed, ocr_input, results,
          ocr_result, response, once, twice>>

None == <<>>
Some(v) == <<v>>

Max(a, b) == IF a >= b THEN a ELSE b
Min(a, b) == IF a <= b THEN a ELSE b

(***************************************************************************)
(* Program constants                                                       *)
(***************************************************************************)
SUPPORTED_FORMATS == {"image/jpeg", "image/jpg", "image/png", "image/webp"}
MAX_FILE_SIZE == 10 * 1024 * 1024
MAX_DIMENSION == 1920
MIN_PLATE_LEN == 4
MAX_PLATE_LEN == 10
padding == 5
MIN_SIZE == 25
MIN_ASPECT == 2
MAX_ASPECT == 5

(***************************************************************************)
(* Bounds of the model                                                     *)
(***************************************************************************)
MaxDelta == 1        \* upload sizes lie within MaxDelta bytes of the limit
MaxBoxes == 2        \* boxes a detector returns
MaxOcrRuns == 2      \* text runs the engine returns inside a request
MaxCands == 2        \* candidates handed to the selection policy alone
SideStep == 179      \* image sides for resizing are multiples of SideStep
MaxSideSteps == 30   \* ... up to MaxSideSteps * SideStep

(***************************************************************************)
(* ImageHandler.resize_if_needed                                           *)
(***************************************************************************)
RECURSIVE Pow2(_)
Pow2(k) == IF k = 0 THEN 1 ELSE 2 * Pow2(k - 1)

RECURSIVE Pow2Mod(_, _)
Pow2Mod(k, m) == IF k = 0 THEN 1 % m ELSE (2 * Pow2Mod(k - 1, m)) % m

\* The least j >= from with m <= MAX_DIMENSION * 2^j.
RECURSIVE BinadeOf(_, _)
BinadeOf(m, from) ==
    IF m <= MAX_DIMENSION * Pow2(from) THEN from ELSE BinadeOf(m, from + 1)

\* The E >= from with 2^E < n <= 2^(E+1), for n >= 1 and from = -1.
RECURSIVE ExponentBelow(_, _)
ExponentBelow(n, from) ==
    IF n <= (IF from = -1 THEN 1 ELSE Pow2(from + 1)) THEN from
    ELSE ExponentBelow(n, from + 1)

(* int(d * scale) with scale = max_dimension / m, both operations in IEEE   *)
(* double precision (round to nearest even), for 1 <= d <= m and            *)
(* m > max_dimension.  When d * max_dimension is no multiple of m the       *)
(* rounding errors (below 2^-39) cannot reach the next integer and the      *)
(* result is the exact floor.  When it is a multiple, the exact quotient N  *)
(* is representable and the result is N unless the division rounded scale   *)
(* down (remainder r of max_dimension * 2^k by m, 0 < 2r < m, k = 52 + j    *)
(* for the binade j of scale) by enough for the product to round to the     *)
(* double below N: d * r > m * 2^(j + E - 1), 2^E < N <= 2^(E+1).           *)
ScaledWrongUp(d, m) == ((d * MAX_DIMENSION) \div m) + 1

ScaledInt(d, m) ==
    LET prod == d * MAX_DIMENSION
        N == prod \div m
        j == BinadeOf(m, 1)
        r == (MAX_DIMENSION * Pow2Mod(52 + j, m)) % m
        E == ExponentBelow(N, -1)
        x == j + E - 1
        below == IF x >= 0 THEN d * r > m * Pow2(x)
                 ELSE d * r * Pow2(-x) > m
    IN  IF prod % m # 0 THEN N
        ELSE IF r = 0 \/ 2 * r > m THEN N
        ELSE IF below THEN N - 1 ELSE N

\* new_width, new_height of lines 117-119
NewSize(g) ==
    LET m == Max(g.height, g.width)
    IN  [height |-> ScaledInt(g.height, m), width |-> ScaledInt(g.width, m)]

Oversized(g) == Max(g.height, g.width) > MAX_DIMENSION

\* cv2.resize refuses an empty destination size
ResizeRaises(g) ==
    Oversized(g) /\ (NewSize(g).height = 0 \/ NewSize(g).width = 0)

resize_if_needed(g) == IF Oversized(g) THEN NewSize(g) ELSE g

(***************************************************************************)
(* ImageHandler.validate_image                                             *)
(***************************************************************************)
SizeLimitMessage == "File size exceeds 10MB limit"
UnsupportedMessage == "Unsupported format. Use: <SUPPORTED_FORMATS>"
InvalidImageMessage == "Invalid image file: <exception>"

validate_image_mime_first(file) ==
    IF file.content_type \notin SUPPORTED_FORMATS
    THEN [is_valid |-> FALSE, error_msg |-> UnsupportedMessage]
    ELSE IF file.size > MAX_FILE_SIZE
    THEN [is_valid |-> FALSE, error_msg |-> SizeLimitMessage]
    ELSE IF ~file.pil_verifies
    THEN [is_valid |-> FALSE, error_msg |-> InvalidImageMessage]
    ELSE [is_valid |-> TRUE, error_msg |-> ""]

validate_image(file) ==
    IF file.size > MAX_FILE_SIZE
    THEN [is_valid |-> FALSE, error_msg |-> SizeLimitMessage]
    ELSE IF file.content_type \notin SUPPORTED_FORMATS
    THEN [is_valid |-> FALSE, error_msg |-> UnsupportedMessage]
    ELSE IF ~file.pil_verifies
    THEN [is_valid |-> FALSE, error_msg |-> InvalidImageMessage]
    ELSE [is_valid |-> TRUE, error_msg |-> ""]

\* cv2.imdecode: the pixel grid, or None when the codec cannot decode
bytes_to_cv2(file) == file.decoded

\* grayscale, bilateral filter, adaptive threshold: a two-level grid
preprocess_for_ocr(g) == [g EXCEPT !.kind = "binary"]

\* JPEG re-encode behind a media-type marker: a display artifact
cv2_to_base64(g) == [media |-> "data:image/jpeg;base64", of |-> g]

(***************************************************************************)
(* Text: str.upper, str.strip, re.sub(r'[^A-Z0-9]', '', ...)               *)
(***************************************************************************)
UpperLetters == {"A", "B"}
Digits == {"7"}
Whitespace == {" "}

UpperChar(c) == CASE c = "a" -> "A" [] c = "b" -> "B" [] OTHER -> c

Upper(text) == [i \in 1..Len(text) |-> UpperChar(text[i])]

RECURSIVE LStrip(_)
LStrip(text) ==
    IF text # <<>> /\ Head(text) \in Whitespace THEN LStrip(Tail(text))
    ELSE text

RECURSIVE RStrip(_)
RStrip(text) ==
    IF text # <<>> /\ text[Len(text)] \in Whitespace
    THEN RStrip(SubSeq(text, 1, Len(text) - 1))
    ELSE text

Strip(text) == RStrip(LStrip(text))

IsPlateChar(c) == c \in UpperLetters \cup Digits

\* line 60
Cleaned(text) == SelectSeq(Upper(text), IsPlateChar)

(***************************************************************************)
(* OCRProcessor.extract_plate_number, lines 53-75, on readtext's pairs     *)
(***************************************************************************)
\* Python's max(seq, key=conf): the first element no later one exceeds
RECURSIVE MaxByConfFrom(_, _, _)
MaxByConfFrom(seq, i, best) ==
    IF i > Len(seq) THEN best
    ELSE MaxByConfFrom(seq, i + 1,
                       IF seq[i].conf > best.conf THEN seq[i] ELSE best)

RECURSIVE LastMaxByConfFrom(_, _, _)
LastMaxByConfFrom(seq, i, best) ==
    IF i > Len(seq) THEN best
    ELSE LastMaxByConfFrom(seq, i + 1,
                           IF seq[i].conf >= best.conf THEN seq[i] ELSE best)

MaxByConfLast(seq) == LastMaxByConfFrom(seq, 2, seq[1])

MaxByConf(seq) == MaxByConfFrom(seq, 2, seq[1])

\* line 63
LengthOk(text) ==
    MIN_PLATE_LEN <= Len(Cleaned(text)) /\ Len(Cleaned(text)) <= MAX_PLATE_LEN

\* lines 57-64
RECURSIVE CleanedResults(_)
CleanedResults(rs) ==
    IF rs = <<>> THEN <<>>
    ELSE LET r == Head(rs)
             rest == CleanedResults(Tail(rs))
         IN  IF LengthOk(r.text)
             THEN <<[text |-> Cleaned(r.text), conf |-> r.conf]>> \o rest
             ELSE rest

FallbackCleaned(rs) ==
    LET best == MaxByConf(rs)
    IN  [text |-> Cleaned(best.text), conf |-> best.conf]

\* lines 68-70
Fallback(rs) ==
    LET best == MaxByConf(rs)
    IN  [text |-> Upper(Strip(best.text)), conf |-> best.conf]

SelectPlate(rs) ==
    IF rs = <<>> THEN None
    ELSE IF CleanedResults(rs) = <<>> THEN Some(Fallback(rs))
    ELSE Some(MaxByConf(CleanedResults(rs)))

(***************************************************************************)
(* PlateDetector                                                           *)
(***************************************************************************)
Area(p) == p[3] * p[4]

\* sorted(..., reverse=True) is stable: among equal areas the earlier stays first
RECURSIVE InsertByArea(_, _)
InsertByArea(s, p) ==
    IF s = <<>> THEN <<p>>
    ELSE IF Area(Head(s)) >= Area(p) THEN <<Head(s)>> \o InsertByArea(Tail(s), p)
    ELSE <<p>> \o s

RECURSIVE SortedFrom(_, _, _)
SortedFrom(ps, i, acc) ==
    IF i > Len(ps) THEN acc ELSE SortedFrom(ps, i + 1, InsertByArea(acc, ps[i]))

\* line 121
SortedByArea(ps) == SortedFrom(ps, 1, <<>>)

FirstDetected(ps) == ps[1]

\* lines 121-122
LargestPlate(ps) == SortedByArea(ps)[1]

\* lines 125-131: img[y1:y2, x1:x2]
Crop(g, p) ==
    [kind |-> "bgr",
     rows |-> <<Max(0, p[2] - padding), Min(g.height, p[2] + p[4] + padding)>>,
     cols |-> <<Max(0, p[1] - padding), Min(g.width, p[1] + p[3] + padding)>>]

ReturnedPadded(g, p) ==
    LET c == Crop(g, p)
    IN  <<c.cols[1], c.rows[1], c.cols[2] - c.cols[1], c.rows[2] - c.rows[1]>>

\* line 133: the box handed back beside the crop
ReturnedBox(g, p) == p

\* lines 146-155: a copy with a rectangle and a label per box
draw_plates(g, boxes) == [height |-> g.height, width |-> g.width, overlay |-> boxes]

(***************************************************************************)
(* The black boxes' outputs                                                *)
(***************************************************************************)
BoxShapes == {<<50, 25>>, <<25, 50>>, <<30, 30>>, <<60, 12>>}

BoxesOfShape(g, s) ==
    {<<x, y, s[1], s[2]>> :
        x \in {0, 7, g.width - s[1]}, y \in {3, g.height - s[2]}}

BoxesIn(g) == UNION {BoxesOfShape(g, s) : s \in BoxShapes}

Fits(g, p) ==
    p[1] >= 0 /\ p[2] >= 0 /\ p[1] + p[3] <= g.width /\ p[2] + p[4] <= g.height

\* detectMultiScale with minSize=(25, 25), lines 49-54
ClassifierPool(g) ==
    {p \in BoxesIn(g) : Fits(g, p) /\ p[3] >= MIN_SIZE /\ p[4] >= MIN_SIZE}

\* bounding rectangles with 2.0 <= w / h <= 5.0, lines 91-96
GeometryPool(g) ==
    {p \in BoxesIn(g) :
        Fits(g, p) /\ MIN_ASPECT * p[4] <= p[3] /\ p[3] <= MAX_ASPECT * p[4]}

SeqsUpTo(S, n) == UNION {[1..k -> S] : k \in 0..n}

\* what reader.readtext may return inside a request
EngineTexts ==
    {<<" ">>, <<"a", "b", "-", "7", "7">>, <<"7", "-">>}

Confidences == {35, 90}

EngineRuns == [text : EngineTexts, conf : Confidences]

\* candidate texts for the selection policy alone: alphanumeric runs whose
\* lengths surround the two length bounds, bare and decorated; never the
\* empty text
RunLengths ==
    {0, 1, MIN_PLATE_LEN - 1, MIN_PLATE_LEN, MAX_PLATE_LEN, MAX_PLATE_LEN + 1}

Run(n) == [i \in 1..n |-> <<"a", "7", "B">>[(i % 3) + 1]]

Decorated(n) ==
    LET r == Run(n)
        h == n \div 2
    IN  { r,
          <<" ">> \o r \o <<" ">>,
          SubSeq(r, 1, h) \o <<"-">> \o SubSeq(r, h + 1, n),
          <<"-">> \o SubSeq(r, 1, h) \o <<" ">> \o SubSeq(r, h + 1, n) \o <<" ">> }

CandidateTexts == UNION {Decorated(n) : n \in RunLengths} \ {<<>>}

Candidates == [text : CandidateTexts, conf : Confidences]

(***************************************************************************)
(* The uploads                                                             *)
(***************************************************************************)
FileSizes ==
    {MAX_FILE_SIZE + d : d \in 0..MaxDelta} \cup {15 * 1024 * 1024}

ContentTypes == {"image/jpeg", "image/gif"}

UploadImages ==
    { [height |-> 56, width |-> 64],
      [height |-> 1074, width |-> 2148],
      [height |-> 5000, width |-> 1] }

Uploads ==
    [size : FileSizes, content_type : ContentTypes, pil_verifies : BOOLEAN,
     decoded : {None} \cup {Some(g) : g \in UploadImages}]

Sides ==
    {1, MAX_DIMENSION - 1, MAX_DIMENSION, MAX_DIMENSION + 1}
        \cup {k * SideStep : k \in 1..MaxSideSteps}

Grids == [height : Sides, width : Sides]

(***************************************************************************)
(* main.upload_image: the responses                                        *)
(***************************************************************************)
HTTPException(code, msg) == [status_code |-> code, detail |-> msg]

\* lines 96-106
NoPlateContent(g) ==
    [status_code |-> 200,
     success |-> FALSE,
     message |-> "No license plate detected in the image",
     plate_text |-> None,
     confidence |-> 0,
     original_image |-> Some(cv2_to_base64(g)),
     plate_image |-> None]

NoTextContentWithoutCrop(boxed, plate) ==
    [status_code |-> 200,
     success |-> FALSE,
     message |-> "License plate detected but no text could be extracted",
     plate_text |-> None,
     confidence |-> 0,
     original_image |-> Some(cv2_to_base64(boxed)),
     plate_image |-> None]

\* lines 122-132
NoTextContent(boxed, plate) ==
    [status_code |-> 200,
     success |-> FALSE,
     message |-> "License plate detected but no text could be extracted",
     plate_text |-> None,
     confidence |-> 0,
     original_image |-> Some(cv2_to_base64(boxed)),
     plate_image |-> Some(cv2_to_base64(plate))]

\* lines 139-150
SuccessContent(boxed, plate, bbox, ocr) ==
    [status_code |-> 200,
     success |-> TRUE,
     message |-> "License plate successfully detected and extracted",
     plate_text |-> Some(ocr.text),
     confidence |-> ocr.conf,
     original_image |-> Some(cv2_to_base64(boxed)),
     plate_image |-> Some(cv2_to_base64(plate)),
     bounding_box |-> [x |-> bbox[1], y |-> bbox[2],
                       width |-> bbox[3], height |-> bbox[4]]]

\* line 119: the argument of extract_plate_number
OcrArgument == plate_result[1].plate_img

(***************************************************************************)
(* One request                                                             *)
(***************************************************************************)
Idle ==
    /\ calls = <<>>
    /\ img = None
    /\ plates = <<>>
    /\ classifier_boxes = None
    /\ geometry_boxes = None
    /\ plate_result = None
    /\ img_with_box = None
    /\ plate_preprocessed = None
    /\ ocr_input = None
    /\ results = <<>>
    /\ ocr_result = None
    /\ response = None
    /\ once = None
    /\ twice = None

Init ==
    /\ pc = "validate"
    /\ upload \in Uploads
    /\ Idle

\* lines 78-80
Validate ==
    /\ pc = "validate"
    /\ calls' = Append(calls, "validate_image")
    /\ LET v == validate_image(upload)
       IN  IF v.is_valid
           THEN pc' = "decode" /\ UNCHANGED response
           ELSE pc' = "done" /\ response' = Some(HTTPException(400, v.error_msg))
    /\ UNCHANGED <<upload, img, plates, classifier_boxes, geometry_boxes,
                   plate_result, img_with_box, plate_preprocessed, ocr_input,
                   results, ocr_result, once, twice>>

\* lines 83-86
Decode ==
    /\ pc = "decode"
    /\ calls' = Append(calls, "bytes_to_cv2")
    /\ img' = bytes_to_cv2(upload)
    /\ IF img' = None
       THEN pc' = "done"
            /\ response' = Some(HTTPException(400, "Failed to process image"))
       ELSE pc' = "resize" /\ UNCHANGED response
    /\ UNCHANGED <<upload, plates, classifier_boxes, geometry_boxes,
                   plate_result, img_with_box, plate_preprocessed, ocr_input,
                   results, ocr_result, once, twice>>

\* line 89; an exception of cv2.resize is caught at lines 154-159
Resize ==
    /\ pc = "resize"
    /\ calls' = Append(calls, "resize_if_needed")
    /\ IF ResizeRaises(img[1])
       THEN /\ pc' = "done"
            /\ response' = Some(HTTPException(500, "Internal server error"))
            /\ UNCHANGED img
       ELSE /\ pc' = "detect_plates"
            /\ img' = Some(resize_if_needed(img[1]))
            /\ UNCHANGED response
    /\ UNCHANGED <<upload, plates, classifier_boxes, geometry_boxes,
                   plate_result, img_with_box, plate_preprocessed, ocr_input,
                   results, ocr_result, once, twice>>

AlwaysContour(boxes) == "contour"

\* line 114: the contour method runs only when the classifier found nothing
AfterClassifier(boxes) == IF boxes = <<>> THEN "contour" ELSE "select"

\* get_best_plate, lines 111-114
DetectPlates ==
    /\ pc = "detect_plates"
    /\ calls' = Append(calls, "detect_plates")
    /\ \E boxes \in SeqsUpTo(ClassifierPool(img[1]), MaxBoxes) :
          /\ classifier_boxes' = Some(boxes)
          /\ plates' = boxes
          /\ pc' = AfterClassifier(boxes)
    /\ UNCHANGED <<upload, img, geometry_boxes, plate_result, img_with_box,
                   plate_preprocessed, ocr_input, results, ocr_result,
                   response, once, twice>>

\* get_best_plate, line 115
DetectContour ==
    /\ pc = "contour"
    /\ calls' = Append(calls, "detect_plates_contour_method")
    /\ \E boxes \in SeqsUpTo(GeometryPool(img[1]), MaxBoxes) :
          /\ geometry_boxes' = Some(boxes)
          /\ plates' = boxes
    /\ pc' = "select"
    /\ UNCHANGED <<upload, img, classifier_boxes, plate_result, img_with_box,
                   plate_preprocessed, ocr_input, results, ocr_result,
                   response, once, twice>>

\* get_best_plate, lines 117-133
SelectBest ==
    /\ pc = "select"
    /\ plate_result' =
          IF plates = <<>> THEN None
          ELSE LET p == LargestPlate(plates)
               IN  Some([plate_img |-> Crop(img[1], p),
                         bbox |-> ReturnedBox(img[1], p)])
    /\ pc' = "returned"
    /\ UNCHANGED <<upload, calls, img, plates, classifier_boxes,
                   geometry_boxes, img_with_box, plate_preprocessed,
                   ocr_input, results, ocr_result, response, once, twice>>

\* get_best_plate's locals end with its return
DropFrame ==
    /\ plates' = <<>>
    /\ classifier_boxes' = None
    /\ geometry_boxes' = None

\* lines 95-106
NoPlateResponse ==
    /\ pc = "returned"
    /\ plate_result = None
    /\ response' = Some(NoPlateContent(img[1]))
    /\ pc' = "done"
    /\ DropFrame
    /\ UNCHANGED <<upload, calls, img, plate_result, img_with_box,
                   plate_preprocessed, ocr_input, results, ocr_result,
                   once, twice>>

\* lines 108-112
DrawPlates ==
    /\ pc = "returned"
    /\ plate_result # None
    /\ calls' = Append(calls, "draw_plates")
    /\ img_with_box' = Some(draw_plates(img[1], <<plate_result[1].bbox>>))
    /\ pc' = "preprocess"
    /\ DropFrame
    /\ UNCHANGED <<upload, img, plate_result, plate_preprocessed, ocr_input,
                   results, ocr_result, response, once, twice>>

\* line 116
Preprocess ==
    /\ pc = "preprocess"
    /\ calls' = Append(calls, "preprocess_for_ocr")
    /\ plate_preprocessed' = Some(preprocess_for_ocr(plate_result[1].plate_img))
    /\ pc' = "extract_text"
    /\ UNCHANGED <<upload, img, plates, classifier_boxes, geometry_boxes,
                   plate_result, img_with_box, ocr_input, results, ocr_result,
                   response, once, twice>>

\* line 119 into extract_plate_number, line 51: extract_text, lines 34-39
ExtractText ==
    /\ pc = "extract_text"
    /\ calls' = Append(calls, "readtext")
    /\ ocr_input' = Some(OcrArgument)
    /\ results' \in SeqsUpTo(EngineRuns, MaxOcrRuns)
    /\ pc' = "select_plate"
    /\ UNCHANGED <<upload, img, plates, classifier_boxes, geometry_boxes,
                   plate_result, img_with_box, plate_preprocessed, ocr_result,
                   response, once, twice>>

\* extract_plate_number, lines 53-75
SelectCandidate ==
    /\ pc = "select_plate"
    /\ ocr_result' = SelectPlate(results)
    /\ pc' = "ocr_returned"
    /\ UNCHANGED <<upload, calls, img, plates, classifier_boxes,
                   geometry_boxes, plate_result, img_with_box,
                   plate_preprocessed, ocr_input, results, response,
                   once, twice>>

\* lines 121-132
NoTextResponse ==
    /\ pc = "ocr_returned"
    /\ ocr_result = None
    /\ response' = Some(NoTextContent(img_with_box[1], plate_result[1].plate_img))
    /\ pc' = "done"
    /\ UNCHANGED <<upload, calls, img, plates, classifier_boxes,
                   geometry_boxes, plate_result, img_with_box,
                   plate_preprocessed, ocr_input, results, ocr_result,
                   once, twice>>

\* lines 134-150
SuccessResponse ==
    /\ pc = "ocr_returned"
    /\ ocr_result # None
    /\ response' = Some(SuccessContent(img_with_box[1],
                                       plate_result[1].plate_img,
                                       plate_result[1].bbox, ocr_result[1]))
    /\ pc' = "done"
    /\ UNCHANGED <<upload, calls, img, plates, classifier_boxes,
                   geometry_boxes, plate_result, img_with_box,
                   plate_preprocessed, ocr_input, results, ocr_result,
                   once, twice>>

Next ==
    \/ Validate
    \/ Decode
    \/ Resize
    \/ DetectPlates
    \/ DetectContour
    \/ SelectBest
    \/ NoPlateResponse
    \/ DrawPlates
    \/ Preprocess
    \/ ExtractText
    \/ SelectCandidate
    \/ NoTextResponse
    \/ SuccessResponse

Spec == Init /\ [][Next]_vars

(***************************************************************************)
(* The selection policy alone, on every list of candidates                 *)
(***************************************************************************)
InitSelect ==
    /\ pc = "select_plate"
    /\ upload = None
    /\ calls = <<>>
    /\ img = None
    /\ plates = <<>>
    /\ classifier_boxes = None
    /\ geometry_boxes = None
    /\ plate_result = None
    /\ img_with_box = None
    /\ plate_preprocessed = None
    /\ ocr_input = None
    /\ results \in SeqsUpTo(Candidates, MaxCands)
    /\ ocr_result = None
    /\ response = None
    /\ once = None
    /\ twice = None

NextSelect == SelectCandidate

SpecSelect == InitSelect /\ [][NextSelect]_vars

(***************************************************************************)
(* resize_if_needed alone, applied once and then to its own result         *)
(***************************************************************************)
InitResize ==
    /\ pc = "resize_once"
    /\ upload = None
    /\ img \in {Some(g) : g \in Grids}
    /\ calls = <<>>
    /\ plates = <<>>
    /\ classifier_boxes = None
    /\ geometry_boxes = None
    /\ plate_result = None
    /\ img_with_box = None
    /\ plate_preprocessed = None
    /\ ocr_input = None
    /\ results = <<>>
    /\ ocr_result = None
    /\ response = None
    /\ once = None
    /\ twice = None

ResizeOnce ==
    /\ pc = "resize_once"
    /\ IF ResizeRaises(img[1])
       THEN pc' = "resize_raised" /\ UNCHANGED once
       ELSE pc' = "resize_twice" /\ once' = Some(resize_if_needed(img[1]))
    /\ UNCHANGED <<upload, calls, img, plates, classifier_boxes,
                   geometry_boxes, plate_result, img_with_box,
                   plate_preprocessed, ocr_input, results, ocr_result,
                   response, twice>>

ResizeTwice ==
    /\ pc = "resize_twice"
    /\ IF ResizeRaises(once[1])
       THEN pc' = "resize_raised" /\ UNCHANGED twice
       ELSE pc' = "resize_done" /\ twice' = Some(resize_if_needed(once[1]))
    /\ UNCHANGED <<upload, calls, img, plates, classifier_boxes,
                   geometry_boxes, plate_result, img_with_box,
                   plate_preprocessed, ocr_input, results, ocr_result,
                   response, once>>

NextResize == ResizeOnce \/ ResizeTwice

SpecResize == InitResize /\ [][NextResize]_vars

(***************************************************************************)
(* Properties                                                              *)
(***************************************************************************)
Range(seq) == {seq[i] : i \in 1..Len(seq)}

PlatePositions(raw) ==
    {i \in 1..Len(raw) : UpperChar(raw[i]) \in UpperLetters \cup Digits}

PlateCharCount(raw) == Cardinality(PlatePositions(raw))

InBounds(raw) == PlateCharCount(raw) >= 4 /\ PlateCharCount(raw) <= 10

InBoundsIdx == {i \in 1..Len(results) : InBounds(results[i].text)}

\* t is raw without its leading and trailing whitespace, upper-cased
IsTrimmedUpperOf(t, raw) ==
    \E a \in 0..Len(raw) : \E b \in a..Len(raw) :
        /\ \A i \in 1..a : raw[i] \in Whitespace
        /\ \A i \in (b + 1)..Len(raw) : raw[i] \in Whitespace
        /\ a < b => (raw[a + 1] \notin Whitespace /\ raw[b] \notin Whitespace)
        /\ Len(t) = b - a
        /\ \A i \in 1..(b - a) : t[i] = UpperChar(raw[a + i])

\* t is the upper-cased raw with every character outside A-Z, 0-9 left out
IsCleanedOf(t, raw) ==
    /\ Len(t) = PlateCharCount(raw)
    /\ \A i \in PlatePositions(raw) :
          t[Cardinality({k \in PlatePositions(raw) : k <= i})] = UpperChar(raw[i])

\* C1: with a non-empty candidate list the selection returns a text of at
\* least one character, whatever the raw texts are (whitespace only,
\* non-alphanumeric only), and it returns None exactly for the empty list.
C1_NeverEmptyText ==
    pc = "ocr_returned" =>
        /\ (ocr_result = None) <=> (results = <<>>)
        /\ results # <<>> => (ocr_result # None /\ Len(ocr_result[1].text) >= 1)

\* C2: when every cleaned text is shorter than 4 or longer than 10, the
\* selection returns a maximum-confidence candidate of the unfiltered list,
\* as its trimmed, upper-cased raw text with its confidence unchanged.
C2_FallbackIsBestRaw ==
    (pc = "ocr_returned" /\ results # <<>> /\ InBoundsIdx = {}) =>
        /\ ocr_result # None
        /\ \E i \in 1..Len(results) :
              /\ \A j \in 1..Len(results) : results[j].conf <= results[i].conf
              /\ ocr_result[1].conf = results[i].conf
              /\ IsTrimmedUpperOf(ocr_result[1].text, results[i].text)

C2_Witness ==
    /\ pc = "ocr_returned"
    /\ Len(results) = 2
    /\ InBoundsIdx = {}
    /\ results[1].conf < results[2].conf
    /\ results[2].text[Len(results[2].text)] = " "
    /\ "-" \in Range(ocr_result[1].text)
    /\ Len(ocr_result[1].text) = Len(results[2].text) - 1
    /\ Len(ocr_result[1].text) > 10

\* C3: when some cleaned text has 4 to 10 characters, the selection returns
\* the cleaned text and confidence of the first candidate of maximum
\* confidence among exactly those; the text has 4 to 10 characters, all of
\* them A-Z or 0-9, and no candidate outside the bounds is returned.
C3_BestFiltered ==
    (pc = "ocr_returned" /\ InBoundsIdx # {}) =>
        /\ ocr_result # None
        /\ \E i \in InBoundsIdx :
              /\ \A j \in InBoundsIdx :
                    /\ results[j].conf <= results[i].conf
                    /\ j < i => results[j].conf < results[i].conf
              /\ ocr_result[1].conf = results[i].conf
              /\ IsCleanedOf(ocr_result[1].text, results[i].text)
        /\ Len(ocr_result[1].text) >= 4
        /\ Len(ocr_result[1].text) <= 10
        /\ Range(ocr_result[1].text) \subseteq UpperLetters \cup Digits

C3_Witness ==
    /\ pc = "ocr_returned"
    /\ Len(results) = 2
    /\ InBoundsIdx = {2}
    /\ results[1].conf > results[2].conf
    /\ ocr_result[1].conf = results[2].conf
    /\ Len(ocr_result[1].text) < Len(results[2].text)

DetectorCalls ==
    SelectSeq(calls,
              LAMBDA c : c \in {"detect_plates", "detect_plates_contour_method"})

\* C4: the classifier runs first; the contour detector runs if and only if
\* the classifier returned no boxes; the result is None if and only if both
\* returned no boxes; after a classifier hit the contour detector's boxes
\* are never produced and the returned box is one of the classifier's.
C4_Localization ==
    /\ geometry_boxes # None => classifier_boxes = Some(<<>>)
    /\ pc \in {"select", "returned"} =>
          /\ classifier_boxes # None
          /\ DetectorCalls[1] = "detect_plates"
          /\ (geometry_boxes # None) <=> (classifier_boxes[1] = <<>>)
          /\ DetectorCalls =
                IF classifier_boxes[1] = <<>>
                THEN <<"detect_plates", "detect_plates_contour_method">>
                ELSE <<"detect_plates">>
    /\ pc = "returned" =>
          /\ (plate_result = None) <=>
                (classifier_boxes[1] = <<>> /\ geometry_boxes = Some(<<>>))
          /\ classifier_boxes[1] # <<>> =>
                plate_result[1].bbox \in Range(classifier_boxes[1])

C4_Witness ==
    /\ pc = "returned"
    /\ classifier_boxes = Some(<<>>)
    /\ geometry_boxes # None
    /\ geometry_boxes[1] # <<>>
    /\ plate_result # None
    /\ plate_result[1].bbox \in Range(geometry_boxes[1])

ExecutedList ==
    IF geometry_boxes # None THEN geometry_boxes[1] ELSE classifier_boxes[1]

\* C5: a returned box is a member of the list of the detector that ran last
\* and no box of that list has a larger width x height.
C5_LargestArea ==
    (pc = "returned" /\ plate_result # None) =>
        /\ plate_result[1].bbox \in Range(ExecutedList)
        /\ \A q \in Range(ExecutedList) :
              q[3] * q[4] <= plate_result[1].bbox[3] * plate_result[1].bbox[4]

C5_Witness ==
    /\ pc = "returned"
    /\ plate_result # None
    /\ Len(ExecutedList) = 2
    /\ ExecutedList[1][3] * ExecutedList[1][4] < ExecutedList[2][3] * ExecutedList[2][4]
    /\ plate_result[1].bbox = ExecutedList[2]

\* lo is max(0, v - 5) and hi is min(limit, v + extent + 5)
Clamped(lo, hi, v, extent, limit) ==
    /\ lo >= 0 /\ lo >= v - 5 /\ (lo = 0 \/ lo = v - 5)
    /\ hi <= limit /\ hi <= v + extent + 5 /\ (hi = limit \/ hi = v + extent + 5)

\* C6: the crop is the selected box widened by 5 pixels on every side and
\* clamped to the image, while the box returned, drawn as the overlay and
\* reported as bounding_box is the detector's box, not widened.
C6_CropPaddedBoxNot ==
    plate_result # None =>
        LET b == plate_result[1].bbox
            c == plate_result[1].plate_img
        IN  /\ Clamped(c.rows[1], c.rows[2], b[2], b[4], img[1].height)
            /\ Clamped(c.cols[1], c.cols[2], b[1], b[3], img[1].width)
            /\ pc = "returned" => b \in Range(plates)
            /\ img_with_box # None => img_with_box[1].overlay = <<b>>
            /\ (pc = "done" /\ response[1].success) =>
                  response[1].bounding_box =
                      [x |-> b[1], y |-> b[2], width |-> b[3], height |-> b[4]]

C6_Witness ==
    /\ pc = "done"
    /\ plate_result # None
    /\ response[1].success
    /\ plate_result[1].bbox[1] = 0
    /\ plate_result[1].plate_img.cols = <<0, plate_result[1].bbox[3] + 5>>
    /\ plate_result[1].plate_img.rows[2] = img[1].height
    /\ response[1].bounding_box.x = 0
    /\ response[1].bounding_box.width = plate_result[1].bbox[3]

\* C7: an upload of more than 10 MiB is answered 400 with the size-limit
\* message whatever its content and declared type, and nothing but
\* validate_image runs for it.
C7_OversizeRejected ==
    upload.size > 10485760 =>
        /\ pc \in {"validate", "done"}
        /\ Range(calls) \subseteq {"validate_image"}
        /\ img = None /\ plate_result = None /\ ocr_input = None
        /\ pc = "done" =>
              /\ calls = <<"validate_image">>
              /\ response = Some([status_code |-> 400,
                                  detail |-> "File size exceeds 10MB limit"])

C7_Witness ==
    /\ pc = "done"
    /\ upload.size > 10485760
    /\ upload.content_type = "image/gif"
    /\ ~upload.pil_verifies
    /\ response[1].status_code = 400

\* C8: resize_if_needed returns a grid whose larger side is at most 1920
\* unchanged; its result never has a side above 1920 (each new side is the
\* exact quotient side * 1920 / larger side rounded down, or one less);
\* and applied to its own result it returns that result.
C8_ResizeIdempotent ==
    /\ once # None =>
          LET g == img[1]
              r == once[1]
              m == IF g.height >= g.width THEN g.height ELSE g.width
          IN  /\ m <= 1920 => r = g
              /\ r.height <= 1920 /\ r.width <= 1920
              /\ m > 1920 =>
                    /\ r.height \in {(g.height * 1920) \div m,
                                     ((g.height * 1920) \div m) - 1}
                    /\ r.width \in {(g.width * 1920) \div m,
                                    ((g.width * 1920) \div m) - 1}
    /\ pc = "resize_raised" => once = None
    /\ pc = "resize_done" => twice = once

C8_Witness ==
    /\ pc = "resize_done"
    /\ img[1].width > 1920
    /\ img[1].height > 1920
    /\ once # img
    /\ twice = once
    /\ once[1].width = 1920

PlateFoundNoText ==
    pc = "done" /\ plate_result # None /\ ocr_input # None /\ ocr_result = None

\* C9 as stated: in the PlateFoundNoText outcome the result has the bounding
\* box present, no plate text, success false and both display images.
C9_NoTextHasBoundingBox ==
    PlateFoundNoText =>
        /\ "bounding_box" \in DOMAIN response[1]
        /\ response[1].plate_text = None
        /\ response[1].success = FALSE
        /\ response[1].original_image # None
        /\ response[1].plate_image # None

\* C9 amended: in the PlateFoundNoText outcome the result has no bounding
\* box, no plate text, confidence 0, success false, and both display images
\* (the original with the overlay and the cropped plate).
C9_NoTextHasNoBoundingBox ==
    PlateFoundNoText =>
        /\ "bounding_box" \notin DOMAIN response[1]
        /\ response[1].status_code = 200
        /\ response[1].plate_text = None
        /\ response[1].confidence = 0
        /\ response[1].success = FALSE
        /\ response[1].original_image =
              Some([media |-> "data:image/jpeg;base64", of |-> img_with_box[1]])
        /\ response[1].plate_image =
              Some([media |-> "data:image/jpeg;base64",
                    of |-> plate_result[1].plate_img])
        /\ img_with_box[1].overlay = <<plate_result[1].bbox>>

C9_Witness ==
    /\ PlateFoundNoText
    /\ results = <<>>
    /\ response[1].message = "License plate detected but no text could be extracted"

\* C10: the grid handed to the recognition engine is the binarized output of
\* preprocess_for_ocr on the crop, computed before recognition; it is not
\* the raw colour crop.
C10_OcrReadsPreprocessed ==
    ocr_input # None =>
        /\ plate_preprocessed # None
        /\ ocr_input = plate_preprocessed
        /\ ocr_input[1].kind = "binary"

====
